---- MODULE Spec2Model ----
(***************************************************************************)
(* Model of the PDF outline extractor (src/1a/main.py) and of the          *)
(* persona-driven document analyzer (src/1b/main.py).                      *)
(*                                                                         *)
(* Python strings are TLA+ strings; TLC evaluates Len, SubSeq and \o on    *)
(* them, so slicing, searching, trimming and splitting are computed on     *)
(* the characters, as the code does.                                       *)
(***************************************************************************)
EXTENDS Integers, Sequences, FiniteSets, TLC

VARIABLES
    pc,                  \* position of the running entry point
    input_files,         \* 1b: /app/input, file name -> classified lines
    documents,           \* 1b: the request's list of file names
    persona,             \* 1b: persona role text
    job_to_be_done,      \* 1b: job text
    keywords,            \* 1b: the keyword profile (a set)
    doc_idx,             \* 1b: index of the document being grouped
    sections,            \* 1b: classified lines of the current document
    sec_idx,             \* 1b: index of the next line of `sections`
    current_heading,     \* 1b: grouping loop state
    current_content,     \* 1b: grouping loop state
    all_sections,        \* 1b: scored sections, in encounter order
    extracted_sections,  \* 1b: output
    subsection_analysis, \* 1b: output
    pdf_files,           \* 1a: the PDFs found in the input directory
    pdf_idx,             \* 1a: index of the PDF being processed by main
    outputs,             \* 1a: output file name -> what was written
    aborted,             \* 1a: an exception left main
    pdf,                 \* extraction: the document being read
    all_chars,           \* extraction (1a): glyphs collected for the statistics
    page_idx,            \* extraction: index of the page being read
    headings,            \* extraction: lines/headings collected so far
    result,              \* extraction / pure functions: the value returned
    arg                  \* pure functions: the arguments of the call

vars == <<pc, input_files, documents, persona, job_to_be_done, keywords, doc_idx, sections,
          sec_idx, current_heading, current_content, all_sections,
          extracted_sections, subsection_analysis, pdf_files, pdf_idx,
          outputs, aborted, pdf, all_chars, page_idx, headings, result, arg>>

rankVars == <<input_files, documents, persona, job_to_be_done, keywords, doc_idx, sections,
              sec_idx, current_heading, current_content, all_sections,
              extracted_sections, subsection_analysis>>
batchVars == <<pdf_files, pdf_idx, outputs, aborted>>
pageVars == <<pdf, all_chars, page_idx, headings>>
callVars == <<result, arg>>

None == [none |-> TRUE]

(***************************************************************************)
(* Python str operations.                                                  *)
(***************************************************************************)
Char(s, i) == SubSeq(s, i, i)

UpperLetters == "ABCDEFGHIJKLMNOPQRSTUVWXYZ"
LowerLetters == "abcdefghijklmnopqrstuvwxyz"
DigitChars == {"0", "1", "2", "3", "4", "5", "6", "7", "8", "9"}
SpaceChars == {" ", "\t", "\n"}
UpperSet == {Char(UpperLetters, i) : i \in 1..26}
LowerSet == {Char(LowerLetters, i) : i \in 1..26}

IsDigit(c) == c \in DigitChars
IsSpace(c) == c \in SpaceChars
IsUpper(c) == c \in UpperSet
IsLower(c) == c \in LowerSet
IsAlnum(c) == IsDigit(c) \/ IsUpper(c) \/ IsLower(c)

LowerChar(c) ==
    IF IsUpper(c)
    THEN Char(LowerLetters, CHOOSE i \in 1..26 : Char(UpperLetters, i) = c)
    ELSE c

\* str.lower() (halving keeps the evaluation depth logarithmic in the length)
RECURSIVE Lower(_)
Lower(s) ==
    IF Len(s) = 0 THEN ""
    ELSE IF Len(s) = 1 THEN LowerChar(s)
    ELSE LET h == Len(s) \div 2
         IN Lower(SubSeq(s, 1, h)) \o Lower(SubSeq(s, h + 1, Len(s)))

\* str.strip()
Strip(s) ==
    LET keep == {i \in 1..Len(s) : ~IsSpace(Char(s, i))}
    IN IF keep = {} THEN ""
       ELSE LET lo == CHOOSE i \in keep : \A j \in keep : i <= j
                hi == CHOOSE i \in keep : \A j \in keep : j <= i
            IN SubSeq(s, lo, hi)

\* sub in s
Contains(s, sub) ==
    \E i \in 1..(Len(s) - Len(sub) + 1) : SubSeq(s, i, i + Len(sub) - 1) = sub

\* s.endswith(suffix)
EndsWith(s, suffix) ==
    Len(s) >= Len(suffix) /\ SubSeq(s, Len(s) - Len(suffix) + 1, Len(s)) = suffix

\* s.split(): the maximal runs of non-whitespace characters, in order
\* (the string is cut at a whitespace character nearest its middle, and each
\* half is split in turn).
RECURSIVE Split(_)
Split(s) ==
    LET n == Len(s)
        sp == {i \in 1..n : IsSpace(Char(s, i))}
    IN IF n = 0 THEN <<>>
       ELSE IF sp = {} THEN <<s>>
       ELSE LET mid == (n + 1) \div 2
                Dist(i) == IF i < mid THEN mid - i ELSE i - mid
                d == CHOOSE k \in 0..n : /\ \E i \in sp : Dist(i) = k
                                         /\ \A i \in sp : Dist(i) >= k
                cut == IF mid - d \in sp THEN mid - d ELSE mid + d
            IN Split(SubSeq(s, 1, cut - 1)) \o Split(SubSeq(s, cut + 1, n))

\* sep.join(parts)
RECURSIVE Join(_, _)
Join(sep, parts) ==
    IF Len(parts) = 0 THEN ""
    ELSE IF Len(parts) = 1 THEN parts[1]
    ELSE parts[1] \o sep \o Join(sep, Tail(parts))

\* s * n
RECURSIVE Repeat(_, _)
Repeat(s, n) ==
    IF n = 0 THEN ""
    ELSE IF n = 1 THEN s
    ELSE LET h == Repeat(s, n \div 2)
         IN IF n % 2 = 0 THEN h \o h ELSE h \o h \o s

\* The concatenation of a sequence of sequences.
RECURSIVE Flatten(_)
Flatten(qq) == IF Len(qq) = 0 THEN <<>> ELSE Head(qq) \o Flatten(Tail(qq))

Min(a, b) == IF a < b THEN a ELSE b
Max(a, b) == IF a > b THEN a ELSE b

SeqToSet(q) == {q[i] : i \in 1..Len(q)}

\* a/b < c/d for b, d > 0, exactly and without forming the cross products
\* (the integer parts are compared, then the remainders' reciprocals).
RECURSIVE RatLess(_, _, _, _)
RatLess(a, b, c, d) ==
    LET q1 == a \div b
        q2 == c \div d
        r1 == a % b
        r2 == c % d
    IN IF q1 # q2 THEN q1 < q2
       ELSE IF r2 = 0 THEN FALSE
       ELSE IF r1 = 0 THEN TRUE
       ELSE RatLess(d, r2, b, r1)

(***************************************************************************)
(* 1b: PersonaDrivenDocumentAnalyzer                                       *)
(***************************************************************************)

\* self.persona_keywords: a dict, iterated in insertion order.
persona_keywords == <<
    [name |-> "researcher",
     kws |-> <<"methodology", "analysis", "results", "conclusion", "literature",
               "study", "research", "hypothesis", "experiment", "data",
               "findings", "review", "survey">>],
    [name |-> "student",
     kws |-> <<"concept", "definition", "example", "problem", "solution",
               "exercise", "theory", "principle", "formula", "equation",
               "practice", "learn">>],
    [name |-> "analyst",
     kws |-> <<"trend", "performance", "metric", "revenue", "growth", "profit",
               "market", "strategy", "forecast", "benchmark", "comparison",
               "financial">>],
    [name |-> "investment",
     kws |-> <<"revenue", "profit", "growth", "market", "competition",
               "strategy", "risk", "return", "valuation", "investment",
               "portfolio">>],
    [name |-> "business",
     kws |-> <<"strategy", "market", "revenue", "profit", "growth", "customer",
               "product", "service", "competition", "opportunity">>],
    [name |-> "technical",
     kws |-> <<"implementation", "architecture", "design", "system",
               "algorithm", "performance", "optimization", "technology",
               "framework">>],
    [name |-> "academic",
     kws |-> <<"theory", "concept", "principle", "methodology", "analysis",
               "study", "research", "literature", "review", "hypothesis">>],
    [name |-> "chemistry",
     kws |-> <<"reaction", "mechanism", "kinetics", "thermodynamics",
               "equilibrium", "catalyst", "synthesis", "molecule", "compound",
               "bond">>],
    [name |-> "biology",
     kws |-> <<"cell", "protein", "gene", "organism", "metabolism", "pathway",
               "structure", "function", "evolution", "ecology">>],
    [name |-> "physics",
     kws |-> <<"force", "energy", "momentum", "wave", "particle", "field",
               "quantum", "relativity", "mechanics", "thermodynamics">>] >>

\* stopwords.words('english'), restricted to the words of the model's texts.
stop_words ==
    {"a", "an", "the", "and", "of", "for", "in", "on", "to", "with", "is",
     "are", "was", "this", "that", "it", "by", "at", "from", "as", "be"}

\* PorterStemmer.stem on the words of the model's texts (a word outside the
\* table has no stem here: evaluating it is an error, never a silent identity).
StemTable == <<
    <<"prepare", "prepar">>, <<"literature", "literatur">>,
    <<"review", "review">>, <<"study", "studi">>, <<"exam", "exam">>,
    <<"analyze", "analyz">>, <<"revenue", "revenu">>, <<"trends", "trend">>,
    <<"plan", "plan">>, <<"trip", "trip">>, <<"methodology", "methodolog">>,
    <<"results", "result">>, <<"travel", "travel">>, <<"notes", "note">>,
    <<"appendix", "appendix">>, <<"market", "market">>,
    <<"growth", "growth">>, <<"profit", "profit">>, <<"concept", "concept">>,
    <<"example", "exampl">>, <<"weather", "weather">>, <<"hotel", "hotel">>,
    <<"list", "list">>, <<"train", "train">>, <<"times", "time">>,
    <<"city", "citi">>, <<"map", "map">>, <<"food", "food">>,
    <<"overview", "overview">>, <<"summary", "summari">>,
    <<"financial", "financi">>, <<"report", "report">>,
    <<"outlook", "outlook">>, <<"ticket", "ticket">>, <<"price", "price">>, <<"prices", "price">>,
    <<"bus", "bu">>, <<"route", "rout">>, <<"data", "data">>, <<"analysis", "analysi">>,
    <<"hotels", "hotel">>, <<"trips", "trip">> >>

stem(token) ==
    LET i == CHOOSE k \in 1..Len(StemTable) : StemTable[k][1] = token
    IN StemTable[i][2]

\* re.sub(r'[^a-zA-Z0-9\s]', ' ', c) for one character.
AlnumOrSpace(c) == IF IsAlnum(c) \/ IsSpace(c) THEN c ELSE " "

\* re.sub(r'[^a-zA-Z0-9\s]', ' ', text)
RECURSIVE BlankSpecials(_)
BlankSpecials(s) ==
    IF Len(s) = 0 THEN ""
    ELSE IF Len(s) = 1 THEN AlnumOrSpace(s)
    ELSE LET h == Len(s) \div 2
         IN BlankSpecials(SubSeq(s, 1, h)) \o BlankSpecials(SubSeq(s, h + 1, Len(s)))

KeepToken(t) == t \notin stop_words /\ Len(t) > 2

SelectTokens(toks) == SelectSeq(toks, KeepToken)

StemAll(toks) == [i \in 1..Len(toks) |-> stem(toks[i])]

\* preprocess_text: lower-case, blank every non-alphanumeric character,
\* tokenize (word_tokenize on letters, digits and whitespace is a whitespace
\* split), drop stop words and tokens of at most 2 characters, stem.
preprocess_text(text) ==
    StemAll(SelectTokens(Split(BlankSpecials(Lower(text)))))

Take(q, n) == SubSeq(q, 1, Min(n, Len(q)))

\* Mutant: every keyword of the archetype is tried, not only the first three.
PersonaMatchesAnyKeyword(entry, persona_lower) ==
    \/ Contains(persona_lower, entry.name)
    \/ \E k \in 1..Len(entry.kws) : Contains(persona_lower, entry.kws[k])

\* The archetype matching test of the loop in extract_keywords_from_persona_job.
PersonaMatches(entry, persona_lower) ==
    \/ Contains(persona_lower, entry.name)
    \/ \E k \in 1..Min(3, Len(entry.kws)) : Contains(persona_lower, entry.kws[k])

\* persona_type after the loop: the first matching entry, else 'general'.
persona_type(persona_text) ==
    LET pl == Lower(persona_text)
        hits == {i \in 1..Len(persona_keywords) : PersonaMatches(persona_keywords[i], pl)}
    IN IF hits = {} THEN "general"
       ELSE persona_keywords[CHOOSE i \in hits : \A j \in hits : i <= j].name

\* self.persona_keywords.get(persona_type, [])
PersonaKeywordsOf(ptype) ==
    LET hits == {i \in 1..Len(persona_keywords) : persona_keywords[i].name = ptype}
    IN IF hits = {} THEN {}
       ELSE SeqToSet(persona_keywords[CHOOSE i \in hits : TRUE].kws)

\* job_tokens[:20]
JobKeywords(job_tokens) == SeqToSet(Take(job_tokens, 20))

\* The three pattern-triggered keyword sets.
Augmentation(job_lower) ==
    (IF Contains(job_lower, "literature review")
     THEN {"methodology", "results", "conclusion", "analysis", "comparison"}
     ELSE {})
    \cup
    (IF Contains(job_lower, "exam") \/ Contains(job_lower, "study")
     THEN {"concept", "definition", "example", "theory", "practice"}
     ELSE {})
    \cup
    (IF Contains(job_lower, "financial") \/ Contains(job_lower, "revenue")
     THEN {"revenue", "profit", "growth", "market", "financial"}
     ELSE {})

\* extract_keywords_from_persona_job (the result is used as a set).
extract_keywords_from_persona_job(persona_text, job_text) ==
    PersonaKeywordsOf(persona_type(persona_text))
        \cup JobKeywords(preprocess_text(job_text))
        \cup Augmentation(Lower(job_text))

AnyIn(words, text) == \E w \in words : Contains(text, w)

\* context_score, in tenths.
ContextScore(text_lower, persona_lower, job_lower) ==
      (IF Contains(persona_lower, "research")
          /\ AnyIn({"methodology", "results", "analysis", "conclusion", "study"}, text_lower)
       THEN 3 ELSE 0)
    + (IF Contains(persona_lower, "student")
          /\ AnyIn({"concept", "definition", "example", "theory", "principle"}, text_lower)
       THEN 3 ELSE 0)
    + (IF AnyIn({"analyst", "business", "investment"}, persona_lower)
          /\ AnyIn({"revenue", "profit", "market", "growth", "financial"}, text_lower)
       THEN 3 ELSE 0)
    + (IF Contains(job_lower, "literature review")
          /\ AnyIn({"methodology", "approach", "results"}, text_lower)
       THEN 2 ELSE 0)
    + (IF Contains(job_lower, "exam")
          /\ AnyIn({"concept", "definition", "example"}, text_lower)
       THEN 2 ELSE 0)
    + (IF Contains(job_lower, "financial")
          /\ AnyIn({"revenue", "profit", "financial"}, text_lower)
       THEN 2 ELSE 0)

\* length_score = min(1.0, n/100) * (1 - max(0, n - 1000)/2000), as the
\* numerator of a fraction over 200000.
LengthScore(n) == Min(100, n) * (2000 - Max(0, n - 1000))

\* keyword_matches
KeywordMatches(text_tokens, kws) ==
    Cardinality({i \in 1..Len(text_tokens) :
                    \E kw \in kws : \/ Contains(text_tokens[i], kw)
                                    \/ Contains(kw, text_tokens[i])})

\* calculate_relevance_score. The score is the exact rational num/den of
\*   keyword_score * 0.5 + context_score * 0.4 + length_score * 0.1
\* with den = 2000000 * len(text_tokens); the parts are kept beside it.
calculate_relevance_score(text, kws, persona_text, job_text) ==
    LET text_tokens == preprocess_text(text)
        n == Len(text_tokens)
        m == KeywordMatches(text_tokens, kws)
        c == ContextScore(Lower(text), Lower(persona_text), Lower(job_text))
        l == LengthScore(Len(text))
    IN IF n = 0
       THEN [num |-> 0, den |-> 1, matches |-> 0, tokens |-> 0, context |-> 0,
             length |-> 0]
       ELSE [num |-> 1000000 * m + 80000 * c * n + l * n, den |-> 2000000 * n,
             matches |-> m, tokens |-> n, context |-> c, length |-> l]

ScoreLess(a, b) == RatLess(a.num, a.den, b.num, b.den)

\* sent_tokenize: the text is cut after each '.', '!' or '?' that is followed
\* by whitespace, and the pieces are trimmed.
RECURSIVE sent_tokenize(_)
sent_tokenize(text) ==
    LET n == Len(text)
        cuts == {i \in 1..(n - 1) : /\ Char(text, i) \in {".", "!", "?"}
                                    /\ IsSpace(Char(text, i + 1))}
    IN IF Strip(text) = "" THEN <<>>
       ELSE IF cuts = {} THEN <<Strip(text)>>
       ELSE LET c == CHOOSE i \in cuts : \A j \in cuts : i <= j
            IN <<Strip(SubSeq(text, 1, c))>> \o sent_tokenize(SubSeq(text, c + 1, n))

\* ' '.join([s['text'] for s in current_content])
ContentText(content) == Join(" ", [i \in 1..Len(content) |-> content[i].text])

\* if len(content_text.strip()) > 50
MinContentLength == 50
\* Mutant: the minimum-content test only rejects an empty body.
PassesAnyContent(content_text) == Len(Strip(content_text)) > 0

PassesMinimumContent(content_text) == Len(Strip(content_text)) > MinContentLength

\* The "save section" block (lines 222-236 and 244-258): all_sections after
\* the block, for the heading and content lines collected so far. `seq` is
\* the encounter index of the section (a history field, not in the code).
SaveSection(acc, doc_name, heading, content, kws, persona_text, job_text) ==
    IF heading # None /\ Len(content) > 0
    THEN LET content_text == ContentText(content)
         IN IF PassesMinimumContent(content_text)
            THEN Append(acc,
                   [document |-> doc_name,
                    section_title |-> heading.text,
                    page_number |-> heading.page,
                    score |-> calculate_relevance_score(
                                 heading.text \o " " \o content_text,
                                 kws, persona_text, job_text),
                    content |-> content_text,
                    seq |-> Len(acc) + 1])
            ELSE acc
    ELSE acc

\* Mutant: equal scores are placed in front (the order of ties is reversed).
ReversedTiesPlace(x, sorted) ==
    Cardinality({i \in 1..Len(sorted) : ScoreLess(x.score, sorted[i].score)})

\* Where list.sort(key=score, reverse=True) puts x among the already placed
\* elements: after every element whose score is not smaller (a stable sort
\* keeps the encounter order of equal scores, also with reverse=True).
StablePlace(x, sorted) ==
    Cardinality({i \in 1..Len(sorted) : ~ScoreLess(sorted[i].score, x.score)})

InsertAt(q, k, x) == SubSeq(q, 1, k) \o <<x>> \o SubSeq(q, k + 1, Len(q))

\* all_sections.sort(key=lambda x: x['score'], reverse=True)
RECURSIVE SortByScore(_)
SortByScore(q) ==
    IF Len(q) = 0 THEN <<>>
    ELSE LET front == SortByScore(SubSeq(q, 1, Len(q) - 1))
             x == q[Len(q)]
         IN InsertAt(front, StablePlace(x, front), x)

\* all_sections[:5] and top_sections[:3]
TopSections == 5
TopAnalysed == 3

\* Mutant: ranks counted from 0 (enumerate without its start argument).
ExtractedSectionsFromZero(top) ==
    [i \in 1..Len(top) |->
        [document |-> top[i].document,
         section_title |-> top[i].section_title,
         importance_rank |-> i - 1,
         page_number |-> top[i].page_number]]

\* One entry of extracted_sections per top section, ranked from 1.
ExtractedSections(top) ==
    [i \in 1..Len(top) |->
        [document |-> top[i].document,
         section_title |-> top[i].section_title,
         importance_rank |-> i,
         page_number |-> top[i].page_number]]

\* The chunk of a section before the length limit (lines 279-285).
MaxSentences == 5
Chunk(content) ==
    LET sentences == sent_tokenize(content)
    IN IF Len(sentences) > 3
       THEN Join(" ", Take(sentences, Min(MaxSentences, Len(sentences))))
       ELSE content

MaxChunk == 500

\* Mutant: the marker is appended to the uncut chunk.
LimitChunkUncut(chunk) ==
    IF Len(chunk) > MaxChunk THEN chunk \o "..." ELSE chunk

\* if len(chunk) > 500: chunk = chunk[:500] + "..."
LimitChunk(chunk) ==
    IF Len(chunk) > MaxChunk THEN SubSeq(chunk, 1, MaxChunk) \o "..." ELSE chunk

SubsectionAnalysis(top) ==
    [i \in 1..Min(TopAnalysed, Len(top)) |->
        [document |-> top[i].document,
         refined_text |-> LimitChunk(Chunk(top[i].content)),
         page_number |-> top[i].page_number]]

(***************************************************************************)
(* extract_relevant_sections, one action per step of its loops.            *)
(***************************************************************************)

\* line 203
RankStart ==
    /\ pc = "rank_start"
    /\ keywords' = extract_keywords_from_persona_job(persona, job_to_be_done)
    /\ doc_idx' = 1
    /\ pc' = "rank_doc"
    /\ UNCHANGED <<input_files, documents, persona, job_to_be_done, sections,
                   sec_idx, current_heading, current_content, all_sections,
                   extracted_sections, subsection_analysis>>
    /\ UNCHANGED <<batchVars, pageVars, callVars>>

\* Mutant: current_heading and current_content are not reset for the next
\* document.
RankNextDocumentNoReset ==
    /\ pc = "rank_doc"
    /\ doc_idx <= Len(documents)
    /\ IF documents[doc_idx] \notin DOMAIN input_files
       THEN /\ doc_idx' = doc_idx + 1
            /\ UNCHANGED <<pc, sections, sec_idx>>
       ELSE /\ sections' = input_files[documents[doc_idx]]
            /\ sec_idx' = 1
            /\ pc' = "rank_group"
            /\ UNCHANGED doc_idx
    /\ UNCHANGED <<input_files, documents, persona, job_to_be_done, keywords,
                   current_heading, current_content,
                   all_sections, extracted_sections, subsection_analysis>>
    /\ UNCHANGED <<batchVars, pageVars, callVars>>

\* lines 208-217: the next document; a missing file is skipped.
RankNextDocument ==
    /\ pc = "rank_doc"
    /\ doc_idx <= Len(documents)
    /\ IF documents[doc_idx] \notin DOMAIN input_files
       THEN /\ doc_idx' = doc_idx + 1
            /\ UNCHANGED <<pc, sections, sec_idx, current_heading, current_content>>
       ELSE /\ sections' = input_files[documents[doc_idx]]
            /\ sec_idx' = 1
            /\ current_heading' = None
            /\ current_content' = <<>>
            /\ pc' = "rank_group"
            /\ UNCHANGED doc_idx
    /\ UNCHANGED <<input_files, documents, persona, job_to_be_done, keywords,
                   all_sections, extracted_sections, subsection_analysis>>
    /\ UNCHANGED <<batchVars, pageVars, callVars>>

\* lines 219-241: one iteration of `for section in sections`.
RankGroupLine ==
    /\ pc = "rank_group"
    /\ sec_idx <= Len(sections)
    /\ LET section == sections[sec_idx]
       IN IF section.is_heading
          THEN /\ all_sections' = SaveSection(all_sections, documents[doc_idx],
                                      current_heading, current_content,
                                      keywords, persona, job_to_be_done)
               /\ current_heading' = section
               /\ current_content' = <<>>
          ELSE /\ current_content' = Append(current_content, section)
               /\ UNCHANGED <<all_sections, current_heading>>
    /\ sec_idx' = sec_idx + 1
    /\ UNCHANGED <<pc, input_files, documents, persona, job_to_be_done,
                   keywords, doc_idx, sections, extracted_sections,
                   subsection_analysis>>
    /\ UNCHANGED <<batchVars, pageVars, callVars>>

\* lines 243-258: the last section of the document.
RankLastSection ==
    /\ pc = "rank_group"
    /\ sec_idx > Len(sections)
    /\ all_sections' = SaveSection(all_sections, documents[doc_idx],
                           current_heading, current_content,
                           keywords, persona, job_to_be_done)
    /\ doc_idx' = doc_idx + 1
    /\ pc' = "rank_doc"
    /\ UNCHANGED <<input_files, documents, persona, job_to_be_done, keywords,
                   sections, sec_idx, current_heading, current_content,
                   extracted_sections, subsection_analysis>>
    /\ UNCHANGED <<batchVars, pageVars, callVars>>

\* lines 260-274: sort in place, take the top sections, rank them.
RankSort ==
    /\ pc = "rank_doc"
    /\ doc_idx > Len(documents)
    /\ all_sections' = SortByScore(all_sections)
    /\ extracted_sections' = ExtractedSections(Take(all_sections', TopSections))
    /\ pc' = "rank_analyse"
    /\ UNCHANGED <<input_files, documents, persona, job_to_be_done, keywords,
                   doc_idx, sections, sec_idx, current_heading,
                   current_content, subsection_analysis>>
    /\ UNCHANGED <<batchVars, pageVars, callVars>>

\* lines 276-297: the excerpts of the first top sections, and the return.
RankAnalyse ==
    /\ pc = "rank_analyse"
    /\ subsection_analysis' = SubsectionAnalysis(Take(all_sections, TopSections))
    /\ pc' = "rank_done"
    /\ UNCHANGED <<input_files, documents, persona, job_to_be_done, keywords,
                   doc_idx, sections, sec_idx, current_heading,
                   current_content, all_sections, extracted_sections>>
    /\ UNCHANGED <<batchVars, pageVars, callVars>>

(***************************************************************************)
(* 1a: PDFOutlineExtractor                                                 *)
(***************************************************************************)

\* self.heading_keywords
heading_keywords ==
    {"introduction", "background", "overview", "summary", "conclusion",
     "methodology", "approach", "requirements", "specifications", "goals",
     "objectives", "timeline", "milestones", "deliverables", "references"}

\* Where a greedy \d* starting at position i of s stops.
SkipDigits(s, i) ==
    LET stops == {j \in i..Len(s) : ~IsDigit(Char(s, j))}
    IN IF stops = {} THEN Len(s) + 1
       ELSE CHOOSE j \in stops : \A k \in stops : j <= k

IsSpaceAt(s, i) == i <= Len(s) /\ IsSpace(Char(s, i))
IsDotAt(s, i) == i <= Len(s) /\ Char(s, i) = "."

\* re.match(r'^\d+[\.\)]\s+', s)
MatchesNumbered(s) ==
    LET j == SkipDigits(s, 1)
    IN /\ j > 1
       /\ j <= Len(s)
       /\ Char(s, j) \in {".", ")"}
       /\ IsSpaceAt(s, j + 1)

\* One word of the Title-Case pattern: [A-Z][a-z]+
IsCapitalisedWord(w) ==
    /\ Len(w) >= 2
    /\ IsUpper(Char(w, 1))
    /\ \A i \in 2..Len(w) : IsLower(Char(w, i))

\* re.match(r'^[A-Z][a-z]+(\s+[A-Z][a-z]+)*:?\s*$', s) for a trimmed s:
\* capitalised words separated by whitespace, then an optional colon.
MatchesTitleCase(s) ==
    LET base == IF EndsWith(s, ":") THEN SubSeq(s, 1, Len(s) - 1) ELSE s
        words == Split(base)
    IN /\ Len(base) > 0
       /\ ~IsSpace(Char(base, Len(base)))
       /\ ~IsSpace(Char(base, 1))
       /\ \A i \in 1..Len(words) : IsCapitalisedWord(words[i])

\* str.isupper(): a cased character, and no lower-case one.
IsUpperStr(s) ==
    /\ \E i \in 1..Len(s) : IsUpper(Char(s, i))
    /\ \A i \in 1..Len(s) : ~IsLower(Char(s, i))

\* re.match(r'^\d+$', s)
MatchesAllDigits(s) == Len(s) > 0 /\ SkipDigits(s, 1) = Len(s) + 1

\* The score is_likely_heading accumulates. Font sizes are numbers of one
\* unit; x > avg * 1.3 is 10 * x > 13 * avg.
HeadingScore(text_clean, font_size, is_bold, avg_font_size) ==
      (IF 10 * font_size > 13 * avg_font_size THEN 4
       ELSE IF 10 * font_size > 11 * avg_font_size THEN 2
       ELSE 0)
    + (IF is_bold THEN 2 ELSE 0)
    + (IF MatchesNumbered(text_clean) THEN 3
       ELSE IF MatchesTitleCase(text_clean) THEN 2
       ELSE IF IsUpperStr(text_clean) /\ Len(Split(text_clean)) >= 2 THEN 1
       ELSE 0)
    + (IF \E keyword \in heading_keywords : Contains(Lower(text_clean), keyword)
       THEN 1 ELSE 0)
    + (IF MatchesAllDigits(text_clean) \/ Lower(text_clean) \in {"page", "continued"}
       THEN -5 ELSE 0)

\* is_likely_heading
is_likely_heading(text, font_size, is_bold, avg_font_size) ==
    LET text_clean == Strip(text)
    IN IF Len(text_clean) < 3 \/ Len(text_clean) > 200
       THEN FALSE
       ELSE HeadingScore(text_clean, font_size, is_bold, avg_font_size) >= 3

\* re.match(r'^\d+\.\s+', s)
MatchesLevel1(s) ==
    LET j == SkipDigits(s, 1)
    IN j > 1 /\ IsDotAt(s, j) /\ IsSpaceAt(s, j + 1)

\* Mutant: the two-level pattern without its trailing \s+, so that it also
\* takes the texts with three-level numbering.
MatchesLevel2NoSpace(s) ==
    LET j == SkipDigits(s, 1)
        k == SkipDigits(s, j + 1)
    IN j > 1 /\ IsDotAt(s, j) /\ k > j + 1

\* re.match(r'^\d+\.\d+\s+', s)
MatchesLevel2(s) ==
    LET j == SkipDigits(s, 1)
        k == SkipDigits(s, j + 1)
    IN j > 1 /\ IsDotAt(s, j) /\ k > j + 1 /\ IsSpaceAt(s, k)

\* re.match(r'^\d+\.\d+\.\d+\s+', s)
MatchesLevel3(s) ==
    LET j == SkipDigits(s, 1)
        k == SkipDigits(s, j + 1)
        l == SkipDigits(s, k + 1)
    IN /\ j > 1 /\ IsDotAt(s, j)
       /\ k > j + 1 /\ IsDotAt(s, k)
       /\ l > k + 1 /\ IsSpaceAt(s, l)

\* level_score after the font-size step (size_ratio is font_size /
\* avg_font_size, and 1 when avg_font_size is not positive).
SizeLevelScore(font_size, avg_font_size) ==
    IF avg_font_size > 0
    THEN IF 10 * font_size >= 15 * avg_font_size THEN 3
         ELSE IF 10 * font_size >= 12 * avg_font_size THEN 2
         ELSE 1
    ELSE 1

\* classify_heading_level
classify_heading_level(text, font_size, max_font_size, avg_font_size) ==
    LET text_clean == Strip(text)
        base == SizeLevelScore(font_size, avg_font_size)
        level_score == IF MatchesLevel1(text_clean) THEN Max(base, 3)
                       ELSE IF MatchesLevel2(text_clean) THEN Min(base, 2)
                       ELSE IF MatchesLevel3(text_clean) THEN 1
                       ELSE base
    IN IF level_score >= 3 THEN "H1"
       ELSE IF level_score >= 2 THEN "H2"
       ELSE "H3"

(***************************************************************************)
(* Glyphs, pages and lines (both extractors).  A glyph is a dict with      *)
(* text, top, x0, size and fontname; top is in thousandths of a unit, or  *)
(* NoTop for a glyph whose top is None.  A page that cannot be decoded     *)
(* raises when page.chars is read.                                         *)
(***************************************************************************)

\* The order of str values (by code point), for printable ASCII without the
\* double quote, the backslash and the backquote.
AsciiLow == " !"
AsciiMid == "#$%&'()*+,-./0123456789:;<=>?@ABCDEFGHIJKLMNOPQRSTUVWXYZ["
AsciiHigh == "]^_"
AsciiLower == "abcdefghijklmnopqrstuvwxyz{|}~"

Ord(c) ==
    IF c = "\t" THEN 9
    ELSE IF c = "\n" THEN 10
    ELSE IF \E i \in 1..Len(AsciiLow) : Char(AsciiLow, i) = c
    THEN 31 + (CHOOSE i \in 1..Len(AsciiLow) : Char(AsciiLow, i) = c)
    ELSE IF \E i \in 1..Len(AsciiMid) : Char(AsciiMid, i) = c
    THEN 34 + (CHOOSE i \in 1..Len(AsciiMid) : Char(AsciiMid, i) = c)
    ELSE IF \E i \in 1..Len(AsciiHigh) : Char(AsciiHigh, i) = c
    THEN 92 + (CHOOSE i \in 1..Len(AsciiHigh) : Char(AsciiHigh, i) = c)
    ELSE 96 + (CHOOSE i \in 1..Len(AsciiLower) : Char(AsciiLower, i) = c)

\* a < b for str
StrLess(a, b) ==
    LET n == Min(Len(a), Len(b))
        diff == {i \in 1..n : Char(a, i) # Char(b, i)}
    IN IF diff = {} THEN Len(a) < Len(b)
       ELSE LET i == CHOOSE k \in diff : \A j \in diff : k <= j
            IN Ord(Char(a, i)) < Ord(Char(b, i))

\* The k-th smallest element of a finite set of integers.
KthSmallest(S, k) == CHOOSE i \in S : Cardinality({j \in S : j < i}) = k - 1

\* The elements of q at the indices of S, in the order of q.
SubSeqAt(q, S) == [k \in 1..Cardinality(S) |-> q[KthSmallest(S, k)]]

\* page.chars raises
CharsRaises(page) == ~page.readable

\* A glyph whose top is None: round(None, 1) raises TypeError.
NoTop == -1

\* round(char['top'], 1), positions in thousandths and keys in hundredths
\* of the unit that round() keeps to one decimal.
RoundedTop(char) == (char.top + 5) \div 10
GroupingRaises(chars) == \E i \in 1..Len(chars) : chars[i].top = NoTop

\* The keys of the `lines` dict, in insertion order: the rounded tops in the
\* order of their first appearance in the glyph stream.
LineKeys(chars) ==
    LET firsts == {i \in 1..Len(chars) :
                      \A j \in 1..(i - 1) : RoundedTop(chars[j]) # RoundedTop(chars[i])}
    IN [k \in 1..Cardinality(firsts) |-> RoundedTop(chars[KthSmallest(firsts, k)])]

\* lines[y]: the glyphs of rounded top y, in stream order.
LineChars(chars, y) ==
    SubSeqAt(chars, {i \in 1..Len(chars) : RoundedTop(chars[i]) = y})

\* line_chars.sort(key=lambda x: x.get('x0', 0)): a stable sort.
SortByX0(line_chars) ==
    LET Before(i) == {j \in 1..Len(line_chars) :
                         \/ line_chars[j].x0 < line_chars[i].x0
                         \/ line_chars[j].x0 = line_chars[i].x0 /\ j < i}
    IN [k \in 1..Len(line_chars) |->
           line_chars[CHOOSE i \in 1..Len(line_chars) : Cardinality(Before(i)) = k - 1]]

\* ''.join([char.get('text', '') for char in line_chars]).strip()
LineText(line_chars) ==
    Strip(Join("", [i \in 1..Len(line_chars) |-> line_chars[i].text]))

RECURSIVE SumSizes(_)
SumSizes(chars) ==
    IF Len(chars) = 0 THEN 0 ELSE Head(chars).size + SumSizes(Tail(chars))

\* [char.get('size', 12) for char in chars if char.get('size')]
SizedChars(chars) == SelectSeq(chars, LAMBDA c : c.size # 0)

MaxSize(chars) ==
    LET sized == SizedChars(chars)
    IN CHOOSE m \in {sized[i].size : i \in 1..Len(sized)} :
          \A i \in 1..Len(sized) : sized[i].size <= m

DefaultFontSize == 12

\* The font statistics of a list of glyphs: avg = sum / count, and max.
FontStats(chars) ==
    LET sized == SizedChars(chars)
    IN IF Len(sized) = 0
       THEN [sum |-> DefaultFontSize, count |-> 1, max |-> DefaultFontSize]
       ELSE [sum |-> SumSizes(sized), count |-> Len(sized), max |-> MaxSize(sized)]

\* max(font_sizes_line) if font_sizes_line else 12
LineFontSize(line_chars) ==
    IF Len(SizedChars(line_chars)) = 0 THEN DefaultFontSize ELSE MaxSize(line_chars)

\* any('bold' in name.lower() for name in font_names if name)
LineIsBold(line_chars) ==
    \E i \in 1..Len(line_chars) :
        line_chars[i].fontname # "" /\ Contains(Lower(line_chars[i].fontname), "bold")

(***************************************************************************)
(* 1a: extract_outline                                                     *)
(***************************************************************************)

\* The entry appended for one line of a page, or no entry (lines 174-197).
\* avg_font_size is stats.sum / stats.count: the size tests compare ratios,
\* so both sizes are passed multiplied by stats.count.  `top` is the line's
\* dict key, kept beside the entry to state claims about the order (the code
\* does not keep it).
LineHeading(line_chars_unsorted, y, page_num, stats) ==
    LET line_chars == SortByX0(line_chars_unsorted)
        text == LineText(line_chars)
        font_size == LineFontSize(line_chars)
    IN IF text = "" THEN <<>>
       ELSE IF is_likely_heading(text, font_size * stats.count,
                                 LineIsBold(line_chars), stats.sum)
       THEN << [level |-> classify_heading_level(text, font_size * stats.count,
                              stats.max * stats.count, stats.sum),
                text |-> text,
                page |-> page_num,
                top |-> y] >>
       ELSE <<>>

\* The entries one iteration of the second page loop appends (lines 155-200);
\* an exception raised while grouping is caught and the page adds nothing.
PageHeadings(page, page_num, stats) ==
    IF Len(page.chars) = 0 \/ GroupingRaises(page.chars) THEN <<>>
    ELSE LET keys == LineKeys(page.chars)
         IN Flatten([k \in 1..Len(keys) |->
                        LineHeading(LineChars(page.chars, keys[k]), keys[k],
                                    page_num, stats)])

HeadingKey(h) == <<Strip(Lower(h.text)), h.page>>

\* Lines 202-209: the first entry of every (text, page) key.
UniqueHeadings(hs) ==
    SubSeqAt(hs, {i \in 1..Len(hs) :
                     \A j \in 1..(i - 1) : HeadingKey(hs[j]) # HeadingKey(hs[i])})

\* (x['page'], x['text']) < (y['page'], y['text'])
PageTextLess(x, y) ==
    x.page < y.page \/ (x.page = y.page /\ StrLess(x.text, y.text))

\* unique_headings.sort(key=lambda x: (x['page'], x['text'])): a stable sort.
SortByPageText(hs) ==
    LET Before(i) == {j \in 1..Len(hs) :
                         \/ PageTextLess(hs[j], hs[i])
                         \/ ~PageTextLess(hs[i], hs[j]) /\ j < i}
    IN [k \in 1..Len(hs) |->
           hs[CHOOSE i \in 1..Len(hs) : Cardinality(Before(i)) = k - 1]]

\* for char in chars: char['page'] = page_num; all_chars.append(char)
PageChars(doc) == [i \in 1..Len(doc.pages) |-> doc.pages[i].chars]

\* extract_outline as one function of the document.
extract_outline(doc) ==
    IF ~doc.openable THEN <<>>
    ELSE IF \E i \in 1..Len(doc.pages) : CharsRaises(doc.pages[i]) THEN <<>>
    ELSE LET chars == Flatten(PageChars(doc))
             stats == FontStats(chars)
         IN IF Len(chars) = 0 THEN <<>>
            ELSE SortByPageText(UniqueHeadings(Flatten(
                    [i \in 1..Len(doc.pages) |->
                        PageHeadings(doc.pages[i], i, stats)])))

(***************************************************************************)
(* 1b: extract_document_structure                                          *)
(***************************************************************************)

\* The entry appended for one line of a page, or no entry (lines 110-149);
\* avg_font_size is stats.sum / stats.count.  `top` is kept as in 1a.
StructureLine(line_chars_unsorted, y, page_num, stats) ==
    LET line_chars == SortByX0(line_chars_unsorted)
        text == LineText(line_chars)
        line_font_size == LineFontSize(line_chars)
        is_heading == /\ 10 * line_font_size * stats.count > 11 * stats.sum
                      /\ Len(text) < 200
                      /\ ~EndsWith(text, ".")
                      /\ Len(Split(text)) <= 15
        level == IF ~is_heading THEN "content"
                 ELSE IF 10 * line_font_size >= 9 * stats.max THEN "H1"
                 ELSE IF 10 * line_font_size * stats.count >= 13 * stats.sum THEN "H2"
                 ELSE "H3"
    IN IF Len(text) < 10 \/ Len(SizedChars(line_chars)) = 0 THEN <<>>
       ELSE << [text |-> text, level |-> level, page |-> page_num,
                font_size |-> line_font_size, is_heading |-> is_heading,
                top |-> y] >>

\* An iteration of the page loop raises (lines 91-107).
StructurePageRaises(page) ==
    CharsRaises(page) \/ GroupingRaises(page.chars)

\* The entries one iteration of the page loop appends (lines 90-149).
PageStructure(page, page_num) ==
    IF Len(page.chars) = 0 \/ Len(SizedChars(page.chars)) = 0 THEN <<>>
    ELSE LET keys == LineKeys(page.chars)
             stats == FontStats(page.chars)
         IN Flatten([k \in 1..Len(keys) |->
                        StructureLine(LineChars(page.chars, keys[k]), keys[k],
                                      page_num, stats)])

(***************************************************************************)
(* Requests of the ranking run: the classified lines that                  *)
(* extract_document_structure returns for each file of /app/input (every   *)
(* line has at least 10 characters; a heading does not end with '.').      *)
(***************************************************************************)
MaxLines == 3
MaxBlocks == 5

HeadingTexts == {"Methodology and Results", "Travel Notes Appendix"}
Content24 == "Hotel list, train times."
Content25 == "City map and food prices."
Content57 == "Review of the market growth and profit trends, with data."
Content70 == "Bus route. Ticket price! City map? Food list. Hotel list. Train times."
Content531 == Strip(Repeat("market growth data ", 28))
LineTexts == HeadingTexts \cup {Content24, Content25, Content57}

\* The classified lines of a document with the given line texts, two lines
\* to a page.
ClassifiedLines(texts) ==
    [i \in 1..Len(texts) |->
        [text |-> texts[i],
         level |-> IF texts[i] \in HeadingTexts THEN "H1" ELSE "content",
         page |-> (i + 1) \div 2,
         font_size |-> IF texts[i] \in HeadingTexts THEN 14 ELSE 10,
         is_heading |-> texts[i] \in HeadingTexts]]

SeqsUpTo(S, n) == UNION {[1..k -> S] : k \in 0..n}

\* Documents made of whole sections that pass the minimum-content filter.
BlockPool == {<<"Methodology and Results", Content57>>,
              <<"Travel Notes Appendix", Content25, Content25>>}
BlockTexts == {Flatten(bs) : bs \in SeqsUpTo(BlockPool, MaxBlocks)}

\* Second documents whose sections tie with, or differ from, the first's.
TieTexts == {<<"Methodology and Results", Content57>>,
             <<"Travel Notes Appendix", Content70, Content57,
               "Methodology and Results", Content57>>,
             <<"Travel Notes Appendix", Content24, Content25,
               "Methodology and Results", Content24,
               "Methodology and Results", Content57,
               "Travel Notes Appendix">>}

\* Documents with long bodies: one sentence of 531 characters, and six
\* sentences of 102 characters each.
LongSentence == Repeat("market growth data ", 5) \o "review."
Content617 == Join(" ", [i \in 1..6 |-> LongSentence])
LongTexts == {<<"Methodology and Results", Content531>>,
              <<"Travel Notes Appendix", Content617>>,
              <<"Travel Notes Appendix", Content531, Content70>>}

\* One document, every sequence of at most MaxLines lines.
SmallRequests ==
    {[docs |-> <<"a.pdf">>, files |-> [n \in {"a.pdf"} |-> ClassifiedLines(t)]] :
        t \in SeqsUpTo(LineTexts, MaxLines)}

\* Two documents and a name that is not in the input directory.
TwoDocuments(ta, tb) ==
    [docs |-> <<"a.pdf", "missing.pdf", "b.pdf">>,
     files |-> [n \in {"a.pdf", "b.pdf"} |->
                   ClassifiedLines(IF n = "a.pdf" THEN ta ELSE tb)]]

BlockRequests == {TwoDocuments(ta, tb) : ta \in BlockTexts, tb \in TieTexts}

LongRequests == {TwoDocuments(ta, tb) : ta \in LongTexts, tb \in TieTexts}

\* A first document that ends with a heading or a section, and a second one
\* that begins with content lines.
LeadingRequests ==
    {TwoDocuments(ta, tb) :
        ta \in {<<"Methodology and Results">>,
                <<"Methodology and Results", Content57>>,
                <<Content57, "Methodology and Results", Content25>>},
        tb \in {<<Content57, "Travel Notes Appendix", Content57>>,
                <<Content57, Content25>>,
                <<Content25, Content57, "Travel Notes Appendix", Content25, Content25>>}}

Requests == SmallRequests \cup BlockRequests \cup LongRequests \cup LeadingRequests

PersonaJobs ==
    {<<"PhD Researcher in Computational Biology", "Prepare a literature review">>,
     <<"Travel Planner", "Plan a trip">>}

RankIdle ==
    /\ input_files = <<>>
    /\ documents = <<>>
    /\ persona = ""
    /\ job_to_be_done = ""
    /\ keywords = {}
    /\ doc_idx = 0
    /\ sections = <<>>
    /\ sec_idx = 0
    /\ current_heading = None
    /\ current_content = <<>>
    /\ all_sections = <<>>
    /\ extracted_sections = <<>>
    /\ subsection_analysis = <<>>

BatchIdle ==
    /\ pdf_files = <<>>
    /\ pdf_idx = 0
    /\ outputs = <<>>
    /\ aborted = FALSE

PageIdle ==
    /\ pdf = None
    /\ all_chars = <<>>
    /\ page_idx = 0
    /\ headings = <<>>

CallIdle ==
    /\ result = None
    /\ arg = None

RankInit ==
    /\ pc = "rank_start"
    /\ \E r \in Requests, pj \in PersonaJobs :
          /\ input_files = r.files
          /\ documents = r.docs
          /\ persona = pj[1]
          /\ job_to_be_done = pj[2]
    /\ keywords = {}
    /\ doc_idx = 0
    /\ sections = <<>>
    /\ sec_idx = 0
    /\ current_heading = None
    /\ current_content = <<>>
    /\ all_sections = <<>>
    /\ extracted_sections = <<>>
    /\ subsection_analysis = <<>>
    /\ BatchIdle /\ PageIdle /\ CallIdle

RankNext ==
    \/ RankStart
    \/ RankNextDocument
    \/ RankGroupLine
    \/ RankLastSection
    \/ RankSort
    \/ RankAnalyse

SpecRank == RankInit /\ [][RankNext]_vars

(***************************************************************************)
(* The sections of the request, read off the input: one per heading line   *)
(* of every document of the request that exists, with the content lines up *)
(* to the next heading of that document as its body.                       *)
(***************************************************************************)
NextHeading(lines, h) ==
    LET later == {k \in (h + 1)..Len(lines) : lines[k].is_heading}
    IN IF later = {} THEN Len(lines) + 1
       ELSE CHOOSE k \in later : \A j \in later : k <= j

BodyOf(lines, h) ==
    Join(" ", [k \in 1..(NextHeading(lines, h) - h - 1) |-> lines[h + k].text])

InputSections ==
    UNION {{[doc |-> d, line |-> h] :
               h \in {k \in 1..Len(input_files[documents[d]]) :
                         input_files[documents[d]][k].is_heading}} :
           d \in {i \in 1..Len(documents) : documents[i] \in DOMAIN input_files}}

InputLines(x) == input_files[documents[x.doc]]
InputBody(x) == BodyOf(InputLines(x), x.line)
InputBodyLength(x) == Len(Strip(InputBody(x)))

RankSorted == pc \in {"rank_analyse", "rank_done"}

\* C1: the importance_rank values of extracted_sections are exactly 1..K in
\* list order, K = min(5, number of sections of the request whose body passed
\* the minimum-content filter).
C1_DenseRanks ==
    RankSorted =>
        LET survivors == {x \in InputSections : InputBodyLength(x) > 50}
            K == Min(5, Cardinality(survivors))
        IN /\ Len(extracted_sections) = K
           /\ \A i \in 1..K : extracted_sections[i].importance_rank = i

\* C1 witness: more than five sections survived and five were ranked.
C1_Witness ==
    /\ pc = "rank_done"
    /\ Cardinality({x \in InputSections : InputBodyLength(x) > 50}) > 5
    /\ Len(extracted_sections) = 5

\* C3: no section whose trimmed body has fewer than 50 characters is ever
\* kept, ranked or analysed: every kept section has a body of at least 50
\* characters, and the output names no more sections of a document, title
\* and page than the input has with a body of at least 50 characters.
C3_MinimumContent ==
    /\ \A i \in 1..Len(all_sections) : Len(Strip(all_sections[i].content)) >= 50
    /\ \A i \in 1..Len(extracted_sections) :
          LET e == extracted_sections[i]
              same == {j \in 1..Len(extracted_sections) :
                          /\ extracted_sections[j].document = e.document
                          /\ extracted_sections[j].section_title = e.section_title
                          /\ extracted_sections[j].page_number = e.page_number}
              long == {x \in InputSections :
                          /\ documents[x.doc] = e.document
                          /\ InputLines(x)[x.line].text = e.section_title
                          /\ InputLines(x)[x.line].page = e.page_number
                          /\ InputBodyLength(x) >= 50}
          IN Cardinality(same) <= Cardinality(long)
    /\ \A i \in 1..Len(subsection_analysis) :
          LET e == subsection_analysis[i]
              same == {j \in 1..Len(subsection_analysis) :
                          /\ subsection_analysis[j].document = e.document
                          /\ subsection_analysis[j].page_number = e.page_number}
              long == {x \in InputSections :
                          /\ documents[x.doc] = e.document
                          /\ InputLines(x)[x.line].page = e.page_number
                          /\ InputBodyLength(x) >= 50}
          IN Cardinality(same) <= Cardinality(long)

\* C3 witness: the request had a heading with a body of 1..49 characters, a
\* heading with a body of exactly 50, a heading followed by no content line
\* that is the last line of its document, and a section that was ranked.
C3_Witness ==
    /\ pc = "rank_done"
    /\ \E x \in InputSections : InputBodyLength(x) \in 1..49
    /\ \E x \in InputSections : InputBodyLength(x) = 50
    /\ \E x \in InputSections : x.line = Len(InputLines(x))
    /\ Len(extracted_sections) > 0
    /\ Len(subsection_analysis) > 0

\* The input sections that kept section s can have come from: same
\* document, heading text and page, and as body the space-joined content
\* lines between that heading and the next heading of the document.
SourcesOf(s) ==
    {x \in InputSections :
        /\ documents[x.doc] = s.document
        /\ InputLines(x)[x.line].text = s.section_title
        /\ InputLines(x)[x.line].page = s.page_number
        /\ InputBody(x) = s.content}

\* C14: at every point of the grouping loop and after it, every emitted
\* section has the document name, text and page of a heading line of the
\* input and as body exactly the content lines between that heading and the
\* next heading (or the end) of the same document, and no input section is
\* emitted more than once; so no body holds a line of another document or a
\* line that precedes the first heading of its document.
C14_SectionsGrouped ==
    \A i \in 1..Len(all_sections) :
        LET s == all_sections[i]
            same == {j \in 1..Len(all_sections) :
                        /\ all_sections[j].document = s.document
                        /\ all_sections[j].section_title = s.section_title
                        /\ all_sections[j].page_number = s.page_number
                        /\ all_sections[j].content = s.content}
        IN /\ SourcesOf(s) # {}
           /\ Cardinality(same) <= Cardinality(SourcesOf(s))

\* C14 witness: the first document ends with a heading that has no content,
\* the second begins with content lines of more than 50 characters before
\* its first heading, and a section of the second document was emitted.
C14_Witness ==
    /\ pc = "rank_done"
    /\ Len(documents) = 3
    /\ LET a == input_files[documents[1]]
           b == input_files[documents[3]]
       IN /\ Len(a) > 0 /\ a[Len(a)].is_heading
          /\ Len(b) > 0 /\ ~b[1].is_heading /\ Len(b[1].text) > 50
          /\ \E k \in 2..Len(b) : b[k].is_heading
    /\ \E i \in 1..Len(all_sections) : all_sections[i].document = documents[3]

ScoreEqual(a, b) == ~ScoreLess(a, b) /\ ~ScoreLess(b, a)

DocumentIndex(name) == CHOOSE i \in 1..Len(documents) : documents[i] = name

\* C4: after the sort the kept sections are in descending order of score,
\* sections of equal score are in encounter order (order of documents in the
\* request, then order inside the document), and the first 5 of that order
\* are the extracted_sections.
C4_StableDescending ==
    RankSorted =>
        /\ \A i, j \in 1..Len(all_sections) :
              i < j =>
                 /\ ~ScoreLess(all_sections[i].score, all_sections[j].score)
                 /\ ScoreEqual(all_sections[i].score, all_sections[j].score)
                       => all_sections[i].seq < all_sections[j].seq
        /\ \A i, j \in 1..Len(all_sections) :
              all_sections[i].seq < all_sections[j].seq =>
                 /\ DocumentIndex(all_sections[i].document)
                       <= DocumentIndex(all_sections[j].document)
                 /\ all_sections[i].document = all_sections[j].document
                       => all_sections[i].page_number <= all_sections[j].page_number
        /\ Len(extracted_sections) = Min(5, Len(all_sections))
        /\ \A i \in 1..Len(extracted_sections) :
              /\ extracted_sections[i].document = all_sections[i].document
              /\ extracted_sections[i].section_title = all_sections[i].section_title
              /\ extracted_sections[i].page_number = all_sections[i].page_number

\* C4 witness: more than five sections, two of equal score from different
\* documents and two of different scores, the later one the better.
C4_Witness ==
    /\ pc = "rank_done"
    /\ Len(all_sections) > 5
    /\ \E i, j \in 1..Len(all_sections) :
          /\ i < j
          /\ ScoreEqual(all_sections[i].score, all_sections[j].score)
          /\ all_sections[i].document # all_sections[j].document
    /\ \E i, j \in 1..Len(all_sections) :
          /\ i < j
          /\ all_sections[i].seq > all_sections[j].seq
          /\ ScoreLess(all_sections[j].score, all_sections[i].score)

\* C9: every refined_text has at most 503 characters: an excerpt of more than
\* 500 characters is cut to its first 500 followed by "...", a shorter one is
\* emitted unchanged.
C9_RefinedTextBound ==
    pc = "rank_done" =>
        \A i \in 1..Len(subsection_analysis) :
            LET excerpt == Chunk(all_sections[i].content)
                refined == subsection_analysis[i].refined_text
            IN /\ Len(refined) <= 503
               /\ Len(excerpt) > 500 => refined = SubSeq(excerpt, 1, 500) \o "..."
               /\ Len(excerpt) <= 500 => refined = excerpt

\* C9 witness: one excerpt was cut to 503 characters (a whole body, and an
\* excerpt of five sentences), another was emitted unchanged.
C9_Witness ==
    /\ pc = "rank_done"
    /\ \E i \in 1..Len(subsection_analysis) :
          /\ Len(subsection_analysis[i].refined_text) = 503
          /\ Len(sent_tokenize(all_sections[i].content)) = 1
    /\ \E i \in 1..Len(subsection_analysis) :
          Len(subsection_analysis[i].refined_text) < 500

C9_WitnessSentences ==
    /\ pc = "rank_done"
    /\ \E i \in 1..Len(subsection_analysis) :
          /\ Len(subsection_analysis[i].refined_text) = 503
          /\ Len(sent_tokenize(all_sections[i].content)) > 5
(***************************************************************************)
(* extract_keywords_from_persona_job as a call: the arguments are drawn    *)
(* from the pools, the action applies the function.                        *)
(***************************************************************************)
ProfilePersonas ==
    {"PhD Researcher in Computational Biology", "Undergraduate Student",
     "Business Analyst", "Market strategy lead", "Travel Planner",
     "BIOLOGY teacher", "Data analysis expert", "Journal Conclusion Editor",
     "Concept designer for a physics lab", "Senior researcher"}

LongJob == Repeat("Plan trips ", 10) \o "hotels prices"

ProfileJobs ==
    {"Prepare a literature review", "Study for the exam",
     "Analyze revenue trends", "Plan a trip", "Financial report", LongJob,
     "Prepare a Literature Review, study revenue"}

ProfileInit ==
    /\ pc = "profile_call"
    /\ \E p \in ProfilePersonas, j \in ProfileJobs :
          arg = [persona |-> p, job_to_be_done |-> j]
    /\ result = None
    /\ RankIdle /\ BatchIdle /\ PageIdle

ProfileCall ==
    /\ pc = "profile_call"
    /\ result' = extract_keywords_from_persona_job(arg.persona, arg.job_to_be_done)
    /\ pc' = "profile_done"
    /\ UNCHANGED <<arg, rankVars, batchVars, pageVars>>

ProfileNext == ProfileCall

SpecProfile == ProfileInit /\ [][ProfileNext]_vars

\* The archetype the claim describes: the first entry of the table, in its
\* order, whose name or one of whose first three keywords occurs in the
\* lower-cased persona; 0 when there is none ("general").
ClaimedArchetype(persona_text) ==
    LET pl == Lower(persona_text)
        Hit(i) == \/ Contains(pl, persona_keywords[i].name)
                  \/ Contains(pl, persona_keywords[i].kws[1])
                  \/ Contains(pl, persona_keywords[i].kws[2])
                  \/ Contains(pl, persona_keywords[i].kws[3])
    IN IF \E i \in 1..Len(persona_keywords) : Hit(i)
       THEN CHOOSE i \in 1..Len(persona_keywords) :
               Hit(i) /\ \A j \in 1..(i - 1) : ~Hit(j)
       ELSE 0

ClaimedProfile(persona_text, job_text) ==
    LET a == ClaimedArchetype(persona_text)
        stems == preprocess_text(job_text)
        jl == Lower(job_text)
    IN (IF a = 0 THEN {} ELSE SeqToSet(persona_keywords[a].kws))
       \cup {stems[i] : i \in 1..Min(20, Len(stems))}
       \cup (IF Contains(jl, "literature review")
             THEN {"methodology", "results", "conclusion", "analysis", "comparison"}
             ELSE {})
       \cup (IF Contains(jl, "exam") \/ Contains(jl, "study")
             THEN {"concept", "definition", "example", "theory", "practice"}
             ELSE {})
       \cup (IF Contains(jl, "financial") \/ Contains(jl, "revenue")
             THEN {"revenue", "profit", "growth", "market", "financial"}
             ELSE {})

\* C10: the profile is the keywords of the first matching archetype (none
\* for "general"), the first 20 job stems and every triggered augmentation
\* set; for a persona containing "researcher" and a job containing
\* "literature review" it includes methodology, results, conclusion,
\* analysis, comparison, research and study.
C10_KeywordProfile ==
    pc = "profile_done" =>
        /\ result = ClaimedProfile(arg.persona, arg.job_to_be_done)
        /\ (/\ Contains(Lower(arg.persona), "researcher")
            /\ Contains(Lower(arg.job_to_be_done), "literature review"))
              => {"methodology", "results", "conclusion", "analysis",
                  "comparison", "research", "study"} \subseteq result

\* C10 witness: a researcher persona with a literature-review job.
C10_Witness ==
    /\ pc = "profile_done"
    /\ Contains(Lower(arg.persona), "researcher")
    /\ Contains(Lower(arg.job_to_be_done), "literature review")
    /\ "study" \in result

\* Further cases of C10 that are reached: an archetype chosen by a keyword
\* before a later archetype matching by name, a persona naming only a fourth
\* keyword, and a job of more than 20 stems.
C10_WitnessOrder ==
    /\ pc = "profile_done"
    /\ arg.persona = "Concept designer for a physics lab"
    /\ "exercise" \in result /\ "quantum" \notin result

C10_WitnessGeneral ==
    /\ pc = "profile_done"
    /\ arg.persona = "Journal Conclusion Editor"
    /\ arg.job_to_be_done = LongJob
    /\ Len(preprocess_text(arg.job_to_be_done)) = 22
    /\ result = {"plan", "trip"}
(***************************************************************************)
(* calculate_relevance_score as a call.                                    *)
(***************************************************************************)
ScoreTexts ==
    {"", "of the", "Methodology and Results " \o Content57,
     Repeat("data ", 20), Repeat("data ", 200), Repeat("data ", 500),
     Repeat("data ", 600), Repeat("data ", 600) \o "a", Repeat("data ", 640)}

ScorePersonaJobs ==
    PersonaJobs \cup
    {<<"Undergraduate Student", "Study for the exam">>,
     <<"Investment Analyst", "Financial report">>,
     <<"Senior researcher", "Plan a trip">>,
     <<"Travel Planner", "Analyze revenue trends">>}

ScoreInit ==
    /\ pc = "score_call"
    /\ \E t \in ScoreTexts, pj \in ScorePersonaJobs :
          arg = [text |-> t, persona |-> pj[1], job_to_be_done |-> pj[2],
                 keywords |-> extract_keywords_from_persona_job(pj[1], pj[2])]
    /\ result = None
    /\ RankIdle /\ BatchIdle /\ PageIdle

ScoreCall ==
    /\ pc = "score_call"
    /\ result' = calculate_relevance_score(arg.text, arg.keywords, arg.persona,
                                           arg.job_to_be_done)
    /\ pc' = "score_done"
    /\ UNCHANGED <<arg, rankVars, batchVars, pageVars>>

ScoreNext == ScoreCall

SpecScore == ScoreInit /\ [][ScoreNext]_vars

\* C8: the length term is never negative (it is 0 for a text of more than
\* 3000 characters), so the score is never below
\* 0.5 * keywordScore + 0.4 * contextScore.
C8_LengthTermClamped ==
    pc = "score_done" =>
        /\ result.length >= 0
        /\ Len(arg.text) > 3000 => result.length = 0
        /\ result.num >= 1000000 * result.matches
                            + 80000 * result.context * result.tokens
(***************************************************************************)
(* is_likely_heading and classify_heading_level as calls.                  *)
(***************************************************************************)
HeadingCallTexts ==
    {"1.1.1 Implementation Details", "1. Introduction", "1.1 Scope",
     "2) Goals", "Project Overview", "PROJECT PLAN", "Summary:", "42", "page",
     "Continued", "ab", "some plain text line", "3.2.1 Budget",
     "1.1.1 OVERVIEW AND GOALS", "10.2.3\tTesting", Repeat("word ", 41),
     "Page", "PAGE", "12345", "Aim", "  2. Methods ", "2.10 Risk Overview",
     "1.Introduction", Repeat("word ", 39) \o "words",
     Repeat("word ", 39) \o "wordss"}

FontSizes == {10, 11, 12, 13, 14, 15, 18}
AverageFontSizes == {0, 10}

HeadingInit ==
    /\ pc = "heading_call"
    /\ \E t \in HeadingCallTexts, f \in FontSizes, b \in BOOLEAN,
          a \in AverageFontSizes :
          arg = [text |-> t, font_size |-> f, is_bold |-> b,
                 avg_font_size |-> a, max_font_size |-> 18]
    /\ result = None
    /\ RankIdle /\ BatchIdle /\ PageIdle

IsLikelyHeadingCall ==
    /\ pc = "heading_call"
    /\ result' = [is_heading |-> is_likely_heading(arg.text, arg.font_size,
                                     arg.is_bold, arg.avg_font_size)]
    /\ pc' = "level_call"
    /\ UNCHANGED <<arg, rankVars, batchVars, pageVars>>

ClassifyHeadingLevelCall ==
    /\ pc = "level_call"
    /\ result' = [is_heading |-> result.is_heading,
                  level |-> classify_heading_level(arg.text, arg.font_size,
                                arg.max_font_size, arg.avg_font_size)]
    /\ pc' = "heading_done"
    /\ UNCHANGED <<arg, rankVars, batchVars, pageVars>>

HeadingNext == IsLikelyHeadingCall \/ ClassifyHeadingLevelCall

SpecHeading == HeadingInit /\ [][HeadingNext]_vars

\* Text that starts with three-level numbering, "N.N.N " (digits, a dot,
\* digits, a dot, digits, whitespace).
AllDigits(text, from, to) == \A d \in from..to : IsDigit(Char(text, d))

StartsWithThreeLevelNumbering(text) ==
    \E i \in 2..Len(text) :
        /\ Char(text, i) = "." /\ AllDigits(text, 1, i - 1)
        /\ \E j \in (i + 2)..Len(text) :
              /\ Char(text, j) = "." /\ AllDigits(text, i + 1, j - 1)
              /\ \E k \in (j + 2)..Len(text) :
                    IsSpace(Char(text, k)) /\ AllDigits(text, j + 1, k - 1)

\* C7: a line that starts with three-level numbering and whose font size is
\* at least 1.1 times the average is a heading and gets level H3, bold or not.
C7_ThreeLevelNumberingIsHeadingH3 ==
    (/\ pc = "heading_done"
     /\ StartsWithThreeLevelNumbering(arg.text)
     /\ arg.avg_font_size > 0
     /\ 10 * arg.font_size >= 11 * arg.avg_font_size)
        => result.is_heading /\ result.level = "H3"

\* The trimmed text is purely numeric, or is "page" or "continued" in any
\* letter case.
IsPenalised(text) ==
    LET t == Strip(text)
    IN \/ Len(t) > 0 /\ AllDigits(t, 1, Len(t))
       \/ Lower(t) \in {"page", "continued"}

\* C11: a line whose trimmed text is purely numeric, or "page" or
\* "continued" in any letter case, is never a heading, whatever its font
\* size and whether or not it is bold.
C11_PenaltyOverrides ==
    (pc \in {"level_call", "heading_done"} /\ IsPenalised(arg.text))
        => ~result.is_heading

\* The sum of the signals as the claim C12 states it: both font-size
\* thresholds inclusive, every signal added.
ClaimedHeadingScore(text_clean, font_size, is_bold, avg_font_size) ==
      (IF 10 * font_size >= 13 * avg_font_size THEN 4
       ELSE IF 10 * font_size >= 11 * avg_font_size THEN 2
       ELSE 0)
    + (IF is_bold THEN 2 ELSE 0)
    + (IF MatchesNumbered(text_clean) THEN 3 ELSE 0)
    + (IF MatchesTitleCase(text_clean) THEN 2 ELSE 0)
    + (IF IsUpperStr(text_clean) /\ Len(Split(text_clean)) >= 2 THEN 1 ELSE 0)
    + (IF \E keyword \in heading_keywords : Contains(Lower(text_clean), keyword)
       THEN 1 ELSE 0)
    + (IF IsPenalised(text_clean) THEN -5 ELSE 0)

\* C12: is_likely_heading is true exactly when the trimmed length is in
\* [3, 200] and the sum of the signals, with font sizes of at least 1.3 and
\* 1.1 times the average giving +4 and +2, is at least 3.
C12_ScoreRuleInclusive ==
    pc \in {"level_call", "heading_done"} =>
        (result.is_heading <=>
            /\ Len(Strip(arg.text)) >= 3
            /\ Len(Strip(arg.text)) <= 200
            /\ ClaimedHeadingScore(Strip(arg.text), arg.font_size, arg.is_bold,
                                   arg.avg_font_size) >= 3)

\* The same sum with both font-size thresholds strict.
StrictHeadingScore(text_clean, font_size, is_bold, avg_font_size) ==
    ClaimedHeadingScore(text_clean, font_size, is_bold, avg_font_size)
    - (IF 10 * font_size = 13 * avg_font_size /\ avg_font_size > 0 THEN 2 ELSE 0)
    - (IF 10 * font_size = 11 * avg_font_size /\ avg_font_size > 0 THEN 2 ELSE 0)

\* With strict thresholds the rule is the one is_likely_heading computes.
ScoreRuleStrict ==
    pc \in {"level_call", "heading_done"} =>
        (result.is_heading <=>
            /\ Len(Strip(arg.text)) >= 3
            /\ Len(Strip(arg.text)) <= 200
            /\ StrictHeadingScore(Strip(arg.text), arg.font_size, arg.is_bold,
                                  arg.avg_font_size) >= 3)

\* Text that starts with single-level numbering, "N. " (digits, a dot,
\* whitespace), and with two-level numbering, "N.N " (digits, a dot, digits,
\* whitespace).
StartsWithOneLevelNumbering(text) ==
    \E i \in 2..(Len(text) - 1) :
        Char(text, i) = "." /\ AllDigits(text, 1, i - 1) /\ IsSpace(Char(text, i + 1))

StartsWithTwoLevelNumbering(text) ==
    \E i \in 2..Len(text) :
        /\ Char(text, i) = "." /\ AllDigits(text, 1, i - 1)
        /\ \E k \in (i + 2)..Len(text) :
              IsSpace(Char(text, k)) /\ AllDigits(text, i + 1, k - 1)

\* The size ratio font_size / avg_font_size is at least tenths / 10; a zero
\* average counts as ratio 1.
RatioAtLeast(tenths, font_size, avg_font_size) ==
    IF avg_font_size > 0 THEN 10 * font_size >= tenths * avg_font_size
    ELSE 10 >= tenths

LevelBySize(font_size, avg_font_size) ==
    IF RatioAtLeast(15, font_size, avg_font_size) THEN "H1"
    ELSE IF RatioAtLeast(12, font_size, avg_font_size) THEN "H2"
    ELSE "H3"

\* C13: the level is H1 for text that starts with "N. "; H2 at a size ratio
\* of at least 1.2 and else H3 for text that starts with "N.N "; H3 for text
\* that starts with "N.N.N "; and for unnumbered text H1 at a ratio of at
\* least 1.5, H2 at a ratio of at least 1.2, else H3.  A zero average is
\* ratio 1.
C13_HeadingLevels ==
    pc = "heading_done" =>
        LET t == Strip(arg.text)
            one == StartsWithOneLevelNumbering(t)
            two == StartsWithTwoLevelNumbering(t)
            three == StartsWithThreeLevelNumbering(t)
        IN /\ result.level \in {"H1", "H2", "H3"}
           /\ one => result.level = "H1"
           /\ two => result.level =
                        IF RatioAtLeast(12, arg.font_size, arg.avg_font_size)
                        THEN "H2" ELSE "H3"
           /\ three => result.level = "H3"
           /\ ~(one \/ two \/ three) =>
                 result.level = LevelBySize(arg.font_size, arg.avg_font_size)

\* A two-level heading at a ratio of 1.5 or more is capped at H2.
C13_Witness ==
    /\ pc = "heading_done"
    /\ StartsWithTwoLevelNumbering(Strip(arg.text))
    /\ arg.avg_font_size > 0
    /\ 10 * arg.font_size >= 15 * arg.avg_font_size
    /\ result.level = "H2"

\* A three-level heading at a ratio of 1.5 or more, and a zero average.
C13_WitnessThreeLevel ==
    /\ pc = "heading_done"
    /\ StartsWithThreeLevelNumbering(Strip(arg.text))
    /\ arg.avg_font_size > 0
    /\ 10 * arg.font_size >= 15 * arg.avg_font_size
    /\ result.level = "H3"

C13_WitnessZeroAverage ==
    /\ pc = "heading_done"
    /\ arg.avg_font_size = 0
    /\ arg.font_size = 18
    /\ ~StartsWithOneLevelNumbering(Strip(arg.text))
    /\ result.level = "H3"

(***************************************************************************)
(* extract_outline (1a) and extract_document_structure (1b), one action    *)
(* per page of their loops.  In this specification `sections` is the list  *)
(* extract_document_structure builds and `headings` the list               *)
(* extract_outline builds.                                                 *)
(***************************************************************************)
MaxPages == 3

Glyph(text, top, x0, size, fontname) ==
    [text |-> text, top |-> top, x0 |-> x0, size |-> size, fontname |-> fontname]

GlyphResults == Glyph("Results ", 10000, 10, 16, "Arial-Bold")
GlyphOverview == Glyph("Overview", 10004, 60, 16, "Arial-Bold")
GlyphBackground == Glyph("Background", 20000, 10, 16, "Arial-Bold")
GlyphBody1 == Glyph("Body text of ", 30000, 10, 10, "Arial")
GlyphBody2 == Glyph("this page.", 30000, 80, 10, "Arial")
GlyphMalformed == Glyph("Appendix", NoTop, 10, 16, "Arial-Bold")

\* Glyph streams of a page: top to bottom; bottom to top; one line with its
\* glyphs right to left; no glyph; a malformed glyph; and a page whose glyphs
\* cannot be decoded.
PagePool ==
    {[readable |-> TRUE,
      chars |-> <<GlyphResults, GlyphOverview, GlyphBackground, GlyphBody1, GlyphBody2>>],
     [readable |-> TRUE,
      chars |-> <<GlyphBody1, GlyphBody2, GlyphBackground, GlyphResults, GlyphOverview>>],
     [readable |-> TRUE,
      chars |-> <<GlyphOverview, GlyphResults, GlyphBody2, GlyphBody1>>],
     [readable |-> TRUE, chars |-> <<>>],
     [readable |-> TRUE, chars |-> <<GlyphBackground, GlyphMalformed, GlyphBody1>>],
     [readable |-> FALSE, chars |-> <<>>]}

DocumentPool ==
    {[openable |-> TRUE, pages |-> ps] : ps \in SeqsUpTo(PagePool, MaxPages)}
    \cup {[openable |-> FALSE, pages |-> <<>>]}

ExtractInit ==
    /\ \/ pc = "outline_open" /\ arg = [function |-> "extract_outline"]
       \/ pc = "structure_open" /\ arg = [function |-> "extract_document_structure"]
    /\ pdf \in DocumentPool
    /\ all_chars = <<>>
    /\ page_idx = 0
    /\ headings = <<>>
    /\ result = None
    /\ RankIdle /\ BatchIdle

extractOther ==
    <<input_files, documents, persona, job_to_be_done, keywords, doc_idx,
      sec_idx, current_heading, current_content, all_sections,
      extracted_sections, subsection_analysis, batchVars, arg, pdf>>

\* 1a lines 134-137: pdfplumber.open; a failure is caught by the outer except.
OutlineOpen ==
    /\ pc = "outline_open"
    /\ IF pdf.openable
       THEN /\ pc' = "outline_collect"
            /\ page_idx' = 1
            /\ UNCHANGED result
       ELSE /\ pc' = "extract_done"
            /\ result' = <<>>
            /\ UNCHANGED page_idx
    /\ UNCHANGED <<all_chars, headings, sections, extractOther>>

\* 1a lines 140-144: one iteration of the loop that collects all_chars; a
\* page.chars that raises leaves through the outer except (line 216).
OutlineCollectPage ==
    /\ pc = "outline_collect"
    /\ page_idx <= Len(pdf.pages)
    /\ IF CharsRaises(pdf.pages[page_idx])
       THEN /\ pc' = "extract_done"
            /\ result' = <<>>
            /\ UNCHANGED <<all_chars, page_idx>>
       ELSE /\ all_chars' = all_chars \o pdf.pages[page_idx].chars
            /\ page_idx' = page_idx + 1
            /\ UNCHANGED <<pc, result>>
    /\ UNCHANGED <<headings, sections, extractOther>>

\* 1a lines 146-152: no glyph at all returns []; else the statistics are
\* those of all_chars and the second loop starts.
OutlineStatistics ==
    /\ pc = "outline_collect"
    /\ page_idx > Len(pdf.pages)
    /\ IF Len(all_chars) = 0
       THEN /\ pc' = "extract_done"
            /\ result' = <<>>
            /\ UNCHANGED page_idx
       ELSE /\ pc' = "outline_pages"
            /\ page_idx' = 1
            /\ UNCHANGED result
    /\ UNCHANGED <<all_chars, headings, sections, extractOther>>

\* 1a lines 155-200: one iteration of the second page loop.
OutlinePage ==
    /\ pc = "outline_pages"
    /\ page_idx <= Len(pdf.pages)
    /\ headings' = headings \o PageHeadings(pdf.pages[page_idx], page_idx,
                                            FontStats(all_chars))
    /\ page_idx' = page_idx + 1
    /\ UNCHANGED <<pc, result, all_chars, sections, extractOther>>

\* 1a lines 202-214
OutlineFinish ==
    /\ pc = "outline_pages"
    /\ page_idx > Len(pdf.pages)
    /\ result' = SortByPageText(UniqueHeadings(headings))
    /\ pc' = "extract_done"
    /\ UNCHANGED <<page_idx, headings, all_chars, sections, extractOther>>

\* 1b lines 86-89
StructureOpen ==
    /\ pc = "structure_open"
    /\ sections' = <<>>
    /\ IF pdf.openable
       THEN /\ pc' = "structure_pages"
            /\ page_idx' = 1
            /\ UNCHANGED result
       ELSE /\ pc' = "extract_done"
            /\ result' = <<>>
            /\ UNCHANGED page_idx
    /\ UNCHANGED <<all_chars, headings, extractOther>>

\* 1b lines 90-149: one iteration of the page loop; an exception leaves the
\* loop through the except of line 151 and the sections so far are returned.
StructurePage ==
    /\ pc = "structure_pages"
    /\ page_idx <= Len(pdf.pages)
    /\ IF StructurePageRaises(pdf.pages[page_idx])
       THEN /\ pc' = "extract_done"
            /\ result' = sections
            /\ UNCHANGED <<sections, page_idx>>
       ELSE /\ sections' = sections \o PageStructure(pdf.pages[page_idx], page_idx)
            /\ page_idx' = page_idx + 1
            /\ UNCHANGED <<pc, result>>
    /\ UNCHANGED <<all_chars, headings, extractOther>>

\* 1b line 154
StructureReturn ==
    /\ pc = "structure_pages"
    /\ page_idx > Len(pdf.pages)
    /\ result' = sections
    /\ pc' = "extract_done"
    /\ UNCHANGED <<page_idx, sections, all_chars, headings, extractOther>>

ExtractNext ==
    \/ OutlineOpen
    \/ OutlineCollectPage
    \/ OutlineStatistics
    \/ OutlinePage
    \/ OutlineFinish
    \/ StructureOpen
    \/ StructurePage
    \/ StructureReturn

SpecExtract == ExtractInit /\ [][ExtractNext]_vars

\* The page fails: its glyphs cannot be read, or one of them is malformed.
PageFails(page) ==
    ~page.readable \/ \E i \in 1..Len(page.chars) : page.chars[i].top = NoTop

\* The glyphs of the pages whose glyphs can be read.
ReadableChars ==
    Flatten([i \in 1..Len(pdf.pages) |->
                IF pdf.pages[i].readable THEN pdf.pages[i].chars ELSE <<>>])

\* The lines a page that does not fail contributes.
PageLines(p) ==
    IF arg.function = "extract_outline"
    THEN SeqToSet(PageHeadings(pdf.pages[p], p, FontStats(ReadableChars)))
    ELSE SeqToSet(PageStructure(pdf.pages[p], p))

\* C5: a failing page contributes no line, and every other page of the
\* document, before or after it, contributes its lines (extract_outline: its
\* headings; extract_document_structure: its classified lines).
C5_PageFailureIsolated ==
    (pc = "extract_done" /\ pdf.openable) =>
        \A p \in 1..Len(pdf.pages) :
            LET got == {result[i] : i \in {k \in 1..Len(result) : result[k].page = p}}
            IN IF PageFails(pdf.pages[p]) THEN got = {} ELSE got = PageLines(p)

\* C6: the lines of the result are in document order: ascending page, then
\* ascending vertical position, each line's glyphs in ascending x0.
C6_DocumentOrder ==
    pc = "extract_done" =>
        /\ \A i, j \in 1..Len(result) :
              i < j => \/ result[i].page < result[j].page
                       \/ /\ result[i].page = result[j].page
                          /\ result[i].top < result[j].top
        /\ \A i \in 1..Len(result) :
              LET chars == pdf.pages[result[i].page].chars
                  line == {k \in 1..Len(chars) : RoundedTop(chars[k]) = result[i].top}
                  Ascending(q) == \A a, b \in 1..Len(q) : a < b => q[a].x0 <= q[b].x0
              IN \E order \in [1..Cardinality(line) -> line] :
                    /\ \A a, b \in 1..Cardinality(line) : a # b => order[a] # order[b]
                    /\ Ascending([k \in 1..Cardinality(line) |-> chars[order[k]]])
                    /\ result[i].text =
                          Strip(Join("", [k \in 1..Cardinality(line) |-> chars[order[k]].text]))
(***************************************************************************)
(* 1a: extract_title, process_pdf and main.  One PDF of the input          *)
(* directory is [stem, metadata_title, doc]: metadata_title is None when   *)
(* the metadata cannot be read or holds no title.                          *)
(***************************************************************************)
\* re.sub(r'\s+', ' ', s)
RECURSIVE CollapseWhitespace(_)
CollapseWhitespace(s) ==
    IF Len(s) = 0 THEN ""
    ELSE IF ~IsSpace(Char(s, 1))
    THEN Char(s, 1) \o CollapseWhitespace(SubSeq(s, 2, Len(s)))
    ELSE LET rest == {i \in 2..Len(s) : ~IsSpace(Char(s, i))}
         IN IF rest = {} THEN " "
            ELSE " " \o CollapseWhitespace(SubSeq(s, KthSmallest(rest, 1), Len(s)))

\* title_chars.sort(key=lambda x: (x.get('top', 0), x.get('x0', 0))): stable.
SortByPosition(title_chars) ==
    LET Less(a, b) == a.top < b.top \/ (a.top = b.top /\ a.x0 < b.x0)
        Same(a, b) == a.top = b.top /\ a.x0 = b.x0
        Before(i) == {j \in 1..Len(title_chars) :
                         \/ Less(title_chars[j], title_chars[i])
                         \/ Same(title_chars[j], title_chars[i]) /\ j < i}
    IN [k \in 1..Len(title_chars) |->
           title_chars[CHOOSE i \in 1..Len(title_chars) : Cardinality(Before(i)) = k - 1]]

MinTitle == 3
MaxTitle == 200

\* Strategy 2 of extract_title (lines 30-58); every exception gives "".
FirstPageTitle(doc) ==
    IF ~doc.openable \/ Len(doc.pages) = 0 THEN ""
    ELSE IF CharsRaises(doc.pages[1]) THEN ""
    ELSE LET chars == doc.pages[1].chars
         IN IF Len(chars) = 0 \/ Len(SizedChars(chars)) = 0 THEN ""
            ELSE LET max_font_size == MaxSize(chars)
                     title_chars == SelectSeq(chars,
                                       LAMBDA c : 10 * c.size >= 9 * max_font_size)
                 IN IF Len(title_chars) > 1 /\ GroupingRaises(title_chars) THEN ""
                    ELSE LET title == Strip(CollapseWhitespace(
                                         Join("", [i \in 1..Len(title_chars) |->
                                                    SortByPosition(title_chars)[i].text])))
                         IN IF MinTitle <= Len(title) /\ Len(title) <= MaxTitle
                            THEN title ELSE ""

extract_title(file) ==
    IF file.metadata_title # None /\ Len(Strip(file.metadata_title.text)) > MinTitle
    THEN Strip(file.metadata_title.text)
    ELSE FirstPageTitle(file.doc)

process_pdf(file) ==
    LET outline == extract_outline(file.doc)
    IN [title |-> extract_title(file),
        outline |-> [i \in 1..Len(outline) |->
                        [level |-> outline[i].level, text |-> outline[i].text,
                         page |-> outline[i].page]]]

fallback == [title |-> "", outline |-> <<>>]

MaxPdfs == 3

ReadablePage == [readable |-> TRUE,
                 chars |-> <<GlyphResults, GlyphOverview, GlyphBackground,
                             GlyphBody1, GlyphBody2>>]

PdfPool ==
    {[stem |-> "report", metadata_title |-> [text |-> "  Annual Report "],
      doc |-> [openable |-> TRUE, pages |-> <<ReadablePage>>]],
     [stem |-> "notes", metadata_title |-> [text |-> "v2 "],
      doc |-> [openable |-> TRUE, pages |-> <<ReadablePage>>]],
     [stem |-> "scan", metadata_title |-> None,
      doc |-> [openable |-> TRUE,
               pages |-> <<ReadablePage, [readable |-> FALSE, chars |-> <<>>]>>]],
     [stem |-> "broken", metadata_title |-> None,
      doc |-> [openable |-> FALSE, pages |-> <<>>]]}

\* Path(input_dir).glob("*.pdf"): distinct files, in any order.
Directories ==
    {fs \in SeqsUpTo(PdfPool, MaxPdfs) :
        \A i, j \in 1..Len(fs) : i # j => fs[i].stem # fs[j].stem}

BatchInit ==
    /\ pc = "batch_process"
    /\ pdf_files \in Directories
    /\ pdf_idx = 1
    /\ outputs = <<>>
    /\ aborted = FALSE
    /\ RankIdle /\ PageIdle /\ CallIdle

\* main lines 241-243: the next file of the glob; process_pdf does not raise.
BatchProcess ==
    /\ pc = "batch_process"
    /\ pdf_idx <= Len(pdf_files)
    /\ result' = process_pdf(pdf_files[pdf_idx])
    /\ pc' = "batch_write"
    /\ UNCHANGED <<pdf_files, pdf_idx, outputs, aborted, arg, rankVars, pageVars>>

\* main lines 246-248: open() and json.dump() wrote the result.
BatchWriteResult ==
    /\ pc = "batch_write"
    /\ outputs' = Append(outputs, [stem |-> pdf_files[pdf_idx].stem, content |-> result])
    /\ pdf_idx' = pdf_idx + 1
    /\ pc' = "batch_process"
    /\ UNCHANGED <<pdf_files, aborted, result, arg, rankVars, pageVars>>

\* main lines 246-252: open() or json.dump() raised; the except clause runs.
BatchWriteRaises ==
    /\ pc = "batch_write"
    /\ pc' = "batch_fallback"
    /\ UNCHANGED <<pdf_files, pdf_idx, outputs, aborted, result, arg, rankVars, pageVars>>

\* main lines 254-258: the fallback was written.
BatchWriteFallback ==
    /\ pc = "batch_fallback"
    /\ outputs' = Append(outputs, [stem |-> pdf_files[pdf_idx].stem, content |-> fallback])
    /\ pdf_idx' = pdf_idx + 1
    /\ pc' = "batch_process"
    /\ UNCHANGED <<pdf_files, aborted, result, arg, rankVars, pageVars>>

\* main lines 256-258: open() or json.dump() of the fallback raised inside
\* the except clause; the exception leaves the loop and main.
BatchFallbackRaises ==
    /\ pc = "batch_fallback"
    /\ aborted' = TRUE
    /\ pc' = "batch_done"
    /\ UNCHANGED <<pdf_files, pdf_idx, outputs, result, arg, rankVars, pageVars>>

\* The glob is exhausted.
BatchFinish ==
    /\ pc = "batch_process"
    /\ pdf_idx > Len(pdf_files)
    /\ pc' = "batch_done"
    /\ UNCHANGED <<pdf_files, pdf_idx, outputs, aborted, result, arg, rankVars, pageVars>>

BatchNext ==
    \/ BatchProcess
    \/ BatchWriteResult
    \/ BatchWriteRaises
    \/ BatchWriteFallback
    \/ BatchFallbackRaises
    \/ BatchFinish

SpecBatch == BatchInit /\ [][BatchNext]_vars

\* C2: when main ends, every PDF of the input directory has an output that
\* is its result or the empty fallback, whatever failed for an earlier PDF.
C2_BatchNeverAborts ==
    pc = "batch_done" =>
        \A i \in 1..Len(pdf_files) :
            \E k \in 1..Len(outputs) :
                /\ outputs[k].stem = pdf_files[i].stem
                /\ \/ outputs[k].content = process_pdf(pdf_files[i])
                   \/ outputs[k].content = fallback
====
